---- MODULE Spec2Model ----
(***************************************************************************)
(* go-proxy: a load-balancing reverse proxy with background health checks. *)
(*                                                                         *)
(* src/main.go holds two programs.  Lines 1-345 are the atomic-flag        *)
(* variant: healthCheck fans one goroutine out per backend and every       *)
(* goroutine stores the backend's Health flag atomically; proxyHandler     *)
(* picks with getHealthyBackend.  Lines 347-563 are the lock-based         *)
(* variant: healthCheck probes the backends one after the other while it   *)
(* holds the registry lock mu, and proxyHandler reads HealthyBackends      *)
(* under the read lock.  The lock-based definitions carry a trailing L.    *)
(*                                                                         *)
(* Strings are sequences of chunks.  A chunk is either one character       *)
(* ("%", "4", "1") or a literal piece that contains neither "%" nor a      *)
(* lone hexadecimal digit ("http://", "b0", "/health").                    *)
(***************************************************************************)
EXTENDS Integers, Sequences, FiniteSets, TLC

\* ---------------------------------------------------------------- bounds
NumBackends == 2
MaxTime == 4
MaxTimeL == 40

\* ------------------------------------------------------ program constants
httpTimeout == 5
httpTimeoutL == 10
failureWindow == 30
DefaultInterval == 3
StatusOK == 200
StatusInternalServerError == 500
StatusBadGateway == 502
StatusServiceUnavailable == 503

BackendIdx == 0 .. (NumBackends - 1)

\* ------------------------------------------------------------- strings
HexDigits == {"0", "1", "2", "3", "4", "5", "6", "7", "8", "9",
              "a", "b", "c", "d", "e", "f", "A", "B", "C", "D", "E", "F"}

\* net/url unescape: every "%" must be followed by two hexadecimal digits.
validEscapes(s) ==
    \A k \in 1 .. Len(s) :
        s[k] = "%" => /\ k + 2 <= Len(s)
                      /\ s[k + 1] \in HexDigits
                      /\ s[k + 2] \in HexDigits

\* url.Parse: the scheme and the authority, then the path, which must
\* unescape.  Hostname() is the authority chunk.
urlParse(s) ==
    IF Len(s) >= 2 /\ s[1] = "http://" /\ validEscapes(s)
    THEN [ok |-> TRUE, Hostname |-> s[2]]
    ELSE [ok |-> FALSE, Hostname |-> ""]

\* ------------------------------------------------------------- headers
Absent == <<>>
HeaderNames == {"Authorization", "Accept"}
EmptyHeader == [h \in HeaderNames |-> Absent]

\* http.Header.Set replaces whatever value the key had.
HeaderSet(hdr, key, value) == [hdr EXCEPT ![key] = value]

Bearer(token) == <<"Bearer ", token>>

\* --------------------------------------------------------- time.Duration
\* A time.Duration is an int64 count of nanoseconds.  An int64 is kept as its
\* eight bytes in two's complement, the lowest byte first, so that a product
\* wraps as the machine's does.
Int64Bytes == 8
Byte == 256

RECURSIVE Int64From(_, _)
Int64From(n, k) ==
    IF k = 0 THEN <<>> ELSE <<n % Byte>> \o Int64From(n \div Byte, k - 1)

\* The int64 of a natural number below 2^31.
Int64(n) == Int64From(n, Int64Bytes)

RECURSIVE Int64Column(_, _, _, _)
Int64Column(a, b, k, i) ==
    IF i > k THEN 0 ELSE a[i] * b[k + 1 - i] + Int64Column(a, b, k, i + 1)

RECURSIVE Int64MulFrom(_, _, _, _)
Int64MulFrom(a, b, k, carry) ==
    IF k > Int64Bytes THEN <<>>
    ELSE LET sum == carry + Int64Column(a, b, k, 1)
         IN <<sum % Byte>> \o Int64MulFrom(a, b, k + 1, sum \div Byte)

\* a * b of two int64: the low 64 bits of the product.
Int64Mul(a, b) == Int64MulFrom(a, b, 1, 0)

\* time.Second
Second == Int64(1000000000)

\* time.ParseDuration of a count of seconds, as in "5s".
ParseDuration(n) == Int64Mul(Int64(n), Second)

\* ------------------------------------------------------------ the state
VARIABLES
    config,          \* Config after loadConfig
    now,             \* wall clock, in seconds
    Health,          \* config.Backends[i].Health, 0 for down, 1 for up
    sleepUntil,      \* when healthCheck's time.Sleep returns
    probes,          \* the probe goroutines that have not returned yet
    lastOutcome,     \* what the most recently dispatched probe of i got
    instants,        \* history: the flag vectors seen during the running
                     \* call of getHealthyBackend that agree with its loads
    hPc,             \* proxyHandler's position
    hI,              \* getHealthyBackend's loop index
    healthyBackends, \* getHealthyBackend's local slice
    backend,         \* the backend getHealthyBackend returned
    req,             \* the client's request header
    outReq,          \* the outbound request proxy.ServeHTTP sent, if any
    roundTrip,       \* what the transport returned for outReq
    resp,            \* what was written to the client
    transport,       \* the timeouts of the request's http.Transport
    \* the lock-based variant
    Up,              \* config.Backends[i].Up
    FailTime,        \* config.Backends[i].FailTime
    Last,            \* config.Backends[i].Last
    IPAddr,          \* config.Backends[i].IPAddr
    HealthyBackends, \* config.HealthyBackends
    dnsCache,        \* host -> ip
    lookedUp,        \* the hosts a network lookup was issued for so far
    mu,              \* the registry lock: its writer and its readers
    hcL,             \* healthCheck: position, loop index, end of its sleep
    cycleL,          \* what the running (or last) cycle did with each backend
    handlerL         \* proxyHandler: position, backend copy, request, answer

atomicVars == <<Health, sleepUntil, probes, lastOutcome, instants,
                hPc, hI, healthyBackends, backend, req, outReq, roundTrip, resp,
                transport>>
registryL == <<Up, FailTime, Last, IPAddr, HealthyBackends, dnsCache, lookedUp>>
lockVars == <<Up, FailTime, Last, IPAddr, HealthyBackends, dnsCache, lookedUp,
              mu, hcL, cycleL, handlerL>>

vars == <<config, now, atomicVars, lockVars>>

NoBackend == -1
NoReq == [sent |-> FALSE, to |-> NoBackend, header |-> EmptyHeader]
NoResp == [by |-> "none", status |-> 0]
NoOutcome == [state |-> "none", err |-> FALSE, StatusCode |-> 0]
NoRequest == [state |-> "norequest", err |-> TRUE, StatusCode |-> 0]
NoTransport == [set |-> FALSE]

\* --------------------------------------------------------------- config
GoodURL(i) == <<"http://", "b" \o ToString(i)>>
BadURL(i) == <<"http://", "b" \o ToString(i), "/", "%">>

\* The files the loader is given: the interval left out (0) or longer than
\* httpTimeout, the health path left out or "41", with and without a bearer
\* token, every URL well-formed or the last one ending in a stray "%".  The
\* five timeouts are left out.
RawConfig(iv, hp, tok, lastBad) ==
    [Interval |-> iv, Health |-> hp, BearerToken |-> tok,
     Backends |-> [i \in BackendIdx |->
                     IF lastBad /\ i = NumBackends - 1 THEN BadURL(i)
                     ELSE GoodURL(i)],
     DialTimeout |-> Int64(0), DialKeepAlive |-> Int64(0),
     TLSHandshakeTimeout |-> Int64(0), ResponseHeaderTimeout |-> Int64(0),
     ExpectContinueTimeout |-> Int64(0)]

RawConfigs ==
    { RawConfig(0, <<>>, "", FALSE),
      RawConfig(0, <<"4", "1">>, "s3cret", TRUE),
      RawConfig(httpTimeout + 1, <<>>, "s3cret", TRUE),
      RawConfig(httpTimeout + 1, <<"4", "1">>, "", FALSE) }

\* loadConfig: the defaults, then Host from each URL that parses.
loadConfig(raw) ==
    [Interval    |-> IF raw.Interval = 0 THEN DefaultInterval ELSE raw.Interval,
     Health      |-> IF raw.Health = <<>> THEN <<"/health">> ELSE raw.Health,
     BearerToken |-> raw.BearerToken,
     Backends    |-> [i \in BackendIdx |->
                        [URL  |-> raw.Backends[i],
                         Host |-> urlParse(raw.Backends[i]).Hostname]],
     DialTimeout           |-> raw.DialTimeout,
     DialKeepAlive         |-> raw.DialKeepAlive,
     TLSHandshakeTimeout   |-> raw.TLSHandshakeTimeout,
     ResponseHeaderTimeout |-> raw.ResponseHeaderTimeout,
     ExpectContinueTimeout |-> raw.ExpectContinueTimeout]

\* The lock-based program's state right after loadConfig.
ZeroTime == 0 - failureWindow
NoIP == ""
NotCached == "<not cached>"
\* An entry of cycleL: whether a lookup and a health request were issued for
\* the backend in this cycle, and how its iteration ended.
CycleEntry(lookup, request, result) ==
    [lookup |-> lookup, request |-> request, result |-> result]
HostNames == {""} \cup {"b" \o ToString(i) : i \in BackendIdx}
InitLockVars ==
    /\ Up = [i \in BackendIdx |-> FALSE]
    /\ FailTime = [i \in BackendIdx |-> ZeroTime]
    /\ Last = [i \in BackendIdx |-> ZeroTime]
    /\ IPAddr = [i \in BackendIdx |-> NoIP]
    /\ HealthyBackends = <<>>
    /\ dnsCache = [h \in HostNames |-> NotCached]
    /\ lookedUp = {}
    /\ mu = [writer |-> "none", readers |-> 0]
    /\ hcL = [pc |-> "sleep", i |-> 0, sleepUntil |-> 0]
    /\ cycleL = [i \in BackendIdx |-> CycleEntry(FALSE, FALSE, "none")]
    /\ handlerL = [pc |-> "idle", backend |-> NoBackend, IPAddr |-> NoIP,
                   outReq |-> NoReq, roundTrip |-> NoOutcome, resp |-> NoResp]

\* Optimistic start: every flag is 1 before the first probe.
InitHealthyMutant ==
    /\ config \in {loadConfig(raw) : raw \in RawConfigs}
    /\ now = 0
    /\ Health = [i \in BackendIdx |-> 1]
    /\ sleepUntil = 0
    /\ probes = {}
    /\ lastOutcome = [i \in BackendIdx |-> [start |-> -1, got |-> NoOutcome]]
    /\ instants = {}
    /\ hPc = "idle"
    /\ hI = 0
    /\ healthyBackends = <<>>
    /\ backend = NoBackend
    /\ req = EmptyHeader
    /\ outReq = NoReq
    /\ roundTrip = NoOutcome
    /\ resp = NoResp
    /\ transport = NoTransport
    /\ InitLockVars

\* main: the flags are the zero value of int32 when healthCheck starts.
Init ==
    /\ config \in {loadConfig(raw) : raw \in RawConfigs}
    /\ now = 0
    /\ Health = [i \in BackendIdx |-> 0]
    /\ sleepUntil = 0
    /\ probes = {}
    /\ lastOutcome = [i \in BackendIdx |-> [start |-> -1, got |-> NoOutcome]]
    /\ instants = {}
    /\ hPc = "idle"
    /\ hI = 0
    /\ healthyBackends = <<>>
    /\ backend = NoBackend
    /\ req = EmptyHeader
    /\ outReq = NoReq
    /\ roundTrip = NoOutcome
    /\ resp = NoResp
    /\ transport = NoTransport
    /\ InitLockVars

handlerVars == <<hPc, hI, healthyBackends, backend, req, outReq, roundTrip,
                 resp, transport>>
proberVars == <<Health, sleepUntil, probes, lastOutcome>>

\* ---------------------------------------------------------- healthCheck
\* One iteration of the for loop: a goroutine per backend, then time.Sleep.
\* Nothing waits for the goroutines.
healthCheck ==
    /\ now >= sleepUntil
    /\ probes' = probes \cup
                   {[i |-> i, start |-> now, pc |-> "new", deadline |-> 0,
                     header |-> EmptyHeader] : i \in BackendIdx}
    /\ lastOutcome' = [i \in BackendIdx |-> [start |-> now, got |-> NoOutcome]]
    /\ sleepUntil' = now + config.Interval
    /\ UNCHANGED <<config, now, Health>>
    /\ UNCHANGED handlerVars
    /\ UNCHANGED lockVars

\* lastOutcome keeps what the probe of the newest round got.
Record(p, outcome) ==
    IF lastOutcome[p.i].start = p.start
    THEN [lastOutcome EXCEPT ![p.i].got = outcome]
    ELSE lastOutcome

\* The probe's request header: the bearer token when one is configured.
probeHeader ==
    IF config.BearerToken # ""
    THEN HeaderSet(EmptyHeader, "Authorization", Bearer(config.BearerToken))
    ELSE EmptyHeader

\* The goroutine up to client.Do: http.NewRequest parses healthURL.
probeNewRequest(p) ==
    /\ p \in probes
    /\ p.pc = "new"
    /\ LET healthURL == config.Backends[p.i].URL \o config.Health
       IN IF ~urlParse(healthURL).ok
          THEN /\ Health' = [Health EXCEPT ![p.i] = 0]
               /\ probes' = probes \ {p}
               /\ lastOutcome' = Record(p, NoRequest)
          ELSE /\ probes' = (probes \ {p}) \cup
                     {[p EXCEPT !.pc = "sent", !.deadline = now + httpTimeout,
                                !.header = probeHeader]}
               /\ UNCHANGED <<Health, lastOutcome>>
    /\ UNCHANGED <<config, now, sleepUntil>>
    /\ UNCHANGED handlerVars
    /\ UNCHANGED lockVars

\* What client.Do can return: an error, or a response with a status code.
TransportError == [state |-> "done", err |-> TRUE, StatusCode |-> 0]
Response(code) == [state |-> "done", err |-> FALSE, StatusCode |-> code]
ProbeOutcomes == {TransportError, Response(StatusOK),
                  Response(StatusInternalServerError)}

\* The flag a finished probe stores: 1 on a 200, 0 on an error or any other
\* status.
probeFlag(outcome) ==
    IF outcome.err THEN 0
    ELSE IF outcome.StatusCode = StatusOK THEN 1 ELSE 0

\* client.Do returns, at the latest when the client's Timeout expires.
probeDo(p, outcome) ==
    /\ p \in probes
    /\ p.pc = "sent"
    /\ Health' = [Health EXCEPT ![p.i] = probeFlag(outcome)]
    /\ probes' = probes \ {p}
    /\ lastOutcome' = Record(p, outcome)
    /\ UNCHANGED <<config, now, sleepUntil>>
    /\ UNCHANGED handlerVars
    /\ UNCHANGED lockVars

\* A second passes: nobody is overdue.
Tick ==
    /\ now < MaxTime
    /\ now < sleepUntil
    /\ \A p \in probes : p.pc = "sent" /\ now < p.deadline
    /\ now' = now + 1
    /\ UNCHANGED <<config, Health, sleepUntil, probes, lastOutcome>>
    /\ UNCHANGED handlerVars
    /\ UNCHANGED lockVars

\* --------------------------------------------------------- proxyHandler
ClientHeaders ==
    {[h \in HeaderNames |-> IF h = "Authorization" THEN a ELSE <<"*/*">>] :
        a \in {Absent, <<"Basic ", "cli">>}}

\* A request arrives (the previous one, if any, has been answered).
proxyHandlerStart(r) ==
    /\ hPc \in {"idle", "done"}
    /\ hPc' = "scan"
    /\ hI' = 0
    /\ healthyBackends' = <<>>
    /\ backend' = NoBackend
    /\ req' = r
    /\ outReq' = NoReq
    /\ roundTrip' = NoOutcome
    /\ resp' = NoResp
    /\ transport' = NoTransport
    /\ UNCHANGED <<config, now>>
    /\ UNCHANGED proberVars
    /\ UNCHANGED lockVars

\* The comparison turned around: a backend counts as up when its flag is 0.
isUpMutant(flag) == flag = 0

\* atomic.LoadInt32(&config.Backends[i].Health) == 1
isUp(flag) == flag = 1

\* The load always reads the first backend's flag.
getHealthyBackendLoadMutant ==
    /\ hPc = "scan"
    /\ hI < NumBackends
    /\ healthyBackends' = IF isUp(Health[0])
                          THEN Append(healthyBackends, hI)
                          ELSE healthyBackends
    /\ hI' = hI + 1
    /\ UNCHANGED <<hPc, backend, req, outReq, roundTrip, resp, transport>>
    /\ UNCHANGED <<config, now>>
    /\ UNCHANGED proberVars
    /\ UNCHANGED lockVars

\* One iteration of getHealthyBackend's loop: one atomic load.
getHealthyBackendLoad ==
    /\ hPc = "scan"
    /\ hI < NumBackends
    /\ healthyBackends' = IF isUp(Health[hI])
                          THEN Append(healthyBackends, hI)
                          ELSE healthyBackends
    /\ hI' = hI + 1
    /\ UNCHANGED <<hPc, backend, req, outReq, roundTrip, resp, transport>>
    /\ UNCHANGED <<config, now>>
    /\ UNCHANGED proberVars
    /\ UNCHANGED lockVars

\* The answer of the lock-based variant, 502, on the atomic variant's path.
NoHealthyResponseMutant == [by |-> "proxy", status |-> StatusBadGateway]

\* http.Error(w, "Service Unavailable", http.StatusServiceUnavailable)
NoHealthyResponse == [by |-> "proxy", status |-> StatusServiceUnavailable]

\* healthyBackends[rand.Intn(len(healthyBackends))]
randomPick(list, k) == list[k + 1]

\* getHealthyBackend returns: the error, which proxyHandler answers at once,
\* or a random element of the slice.
getHealthyBackendReturn ==
    /\ hPc = "scan"
    /\ hI = NumBackends
    /\ IF Len(healthyBackends) = 0
       THEN /\ resp' = NoHealthyResponse
            /\ hPc' = "done"
            /\ UNCHANGED backend
       ELSE /\ \E k \in 0 .. (Len(healthyBackends) - 1) :
                  backend' = randomPick(healthyBackends, k)
            /\ hPc' = "selected"
            /\ UNCHANGED resp
    /\ UNCHANGED <<hI, healthyBackends, req, outReq, roundTrip, transport>>
    /\ UNCHANGED <<config, now>>
    /\ UNCHANGED proberVars
    /\ UNCHANGED lockVars

\* The parse error answered like a transport error.
ParseErrorResponseMutant == [by |-> "proxy", status |-> StatusBadGateway]

\* http.Error(w, "Internal Server Error", http.StatusInternalServerError)
ParseErrorResponse == [by |-> "proxy", status |-> StatusInternalServerError]

\* Header.Add in place of Header.Set: a client's Authorization stays first.
DirectorMutant(hdr) ==
    IF config.BearerToken # "" /\ hdr["Authorization"] = Absent
    THEN HeaderSet(hdr, "Authorization", Bearer(config.BearerToken))
    ELSE hdr

\* proxy.Director: the original director keeps the client's header, then
\* the bearer token, when configured, replaces Authorization.
Director(hdr) ==
    IF config.BearerToken # ""
    THEN HeaderSet(hdr, "Authorization", Bearer(config.BearerToken))
    ELSE hdr

\* One timeout of the transport: time.Duration(seconds), replaced by the
\* configured value when that is not 0, and multiplied by time.Second.
Timeout(seconds, configured) ==
    Int64Mul(IF configured # Int64(0) THEN configured ELSE Int64(seconds), Second)

\* proxy.Transport = &http.Transport{...}
Transport ==
    [set |-> TRUE,
     Timeout               |-> Timeout(5, config.DialTimeout),
     KeepAlive             |-> Timeout(30, config.DialKeepAlive),
     TLSHandshakeTimeout   |-> Timeout(5, config.TLSHandshakeTimeout),
     ResponseHeaderTimeout |-> Timeout(5, config.ResponseHeaderTimeout),
     ExpectContinueTimeout |-> Timeout(1, config.ExpectContinueTimeout)]

\* url.Parse(backend.URL), the transport with its timeouts, then
\* proxy.ServeHTTP sends the outbound request.
proxyHandlerServe ==
    /\ hPc = "selected"
    /\ IF ~urlParse(config.Backends[backend].URL).ok
       THEN /\ resp' = ParseErrorResponse
            /\ hPc' = "done"
            /\ UNCHANGED <<outReq, transport>>
       ELSE /\ transport' = Transport
            /\ outReq' = [sent |-> TRUE, to |-> backend, header |-> Director(req)]
            /\ hPc' = "forward"
            /\ UNCHANGED resp
    /\ UNCHANGED <<hI, healthyBackends, backend, req, roundTrip>>
    /\ UNCHANGED <<config, now>>
    /\ UNCHANGED proberVars
    /\ UNCHANGED lockVars

BackendStatuses == {StatusOK, StatusInternalServerError,
                    StatusServiceUnavailable}
ForwardOutcomes == {TransportError} \cup {Response(c) : c \in BackendStatuses}

\* The transport error answered like the empty healthy set.
ErrorHandlerMutant == [by |-> "proxy", status |-> StatusServiceUnavailable]

\* proxy.ErrorHandler: http.Error(w, "Bad Gateway", http.StatusBadGateway)
ErrorHandler == [by |-> "proxy", status |-> StatusBadGateway]

\* Passive health checking: a failed round trip marks the backend down.
proxyHandlerFinishMarkDownMutant(outcome) ==
    /\ hPc = "forward"
    /\ roundTrip' = outcome
    /\ resp' = IF outcome.err
               THEN ErrorHandler
               ELSE [by |-> "backend", status |-> outcome.StatusCode]
    /\ Health' = IF outcome.err THEN [Health EXCEPT ![backend] = 0] ELSE Health
    /\ hPc' = "done"
    /\ UNCHANGED <<hI, healthyBackends, backend, req, outReq, transport>>
    /\ UNCHANGED <<config, now, sleepUntil, probes, lastOutcome>>
    /\ UNCHANGED lockVars

\* A retry loop: after a failed round trip the handler selects again.
proxyHandlerFinishRetryMutant(outcome) ==
    /\ hPc = "forward"
    /\ roundTrip' = outcome
    /\ IF outcome.err
       THEN /\ hPc' = "scan"
            /\ hI' = 0
            /\ healthyBackends' = <<>>
            /\ UNCHANGED resp
       ELSE /\ hPc' = "done"
            /\ resp' = [by |-> "backend", status |-> outcome.StatusCode]
            /\ UNCHANGED <<hI, healthyBackends>>
    /\ UNCHANGED <<backend, req, outReq, transport>>
    /\ UNCHANGED <<config, now>>
    /\ UNCHANGED proberVars
    /\ UNCHANGED lockVars

\* The round trip ends: the ErrorHandler on a transport error, otherwise
\* the backend's response is copied to the client.
proxyHandlerFinish(outcome) ==
    /\ hPc = "forward"
    /\ roundTrip' = outcome
    /\ resp' = IF outcome.err
               THEN ErrorHandler
               ELSE [by |-> "backend", status |-> outcome.StatusCode]
    /\ hPc' = "done"
    /\ UNCHANGED <<hI, healthyBackends, backend, req, outReq, transport>>
    /\ UNCHANGED <<config, now>>
    /\ UNCHANGED proberVars
    /\ UNCHANGED lockVars

\* ===================================================== lock-based variant
\* The files the lock-based loader is given: an interval of 10 or of 30
\* seconds, every URL well-formed or the last one ending in a stray "%".
RawConfigsL ==
    { [Interval |-> iv, Health |-> <<>>,
       Backends |-> [i \in BackendIdx |->
                       IF lastBad /\ i = NumBackends - 1 THEN BadURL(i)
                       ELSE GoodURL(i)]] :
        iv \in {httpTimeoutL, failureWindow}, lastBad \in BOOLEAN }

loadConfigL(raw) ==
    [Interval |-> IF raw.Interval = 0 THEN DefaultInterval ELSE raw.Interval,
     Health   |-> IF raw.Health = <<>> THEN <<"/health">> ELSE raw.Health,
     Backends |-> [i \in BackendIdx |->
                     [URL  |-> raw.Backends[i],
                      Host |-> urlParse(raw.Backends[i]).Hostname]]]

InitL ==
    /\ config \in {loadConfigL(raw) : raw \in RawConfigsL}
    /\ now = 0
    /\ Health = [i \in BackendIdx |-> 0]
    /\ sleepUntil = 0
    /\ probes = {}
    /\ lastOutcome = [i \in BackendIdx |-> [start |-> -1, got |-> NoOutcome]]
    /\ instants = {}
    /\ hPc = "idle"
    /\ hI = 0
    /\ healthyBackends = <<>>
    /\ backend = NoBackend
    /\ req = EmptyHeader
    /\ outReq = NoReq
    /\ roundTrip = NoOutcome
    /\ resp = NoResp
    /\ transport = NoTransport
    /\ InitLockVars

\* mu.Lock(): the writer has to wait while a reader holds the lock, and a
\* waiting writer keeps new readers out.
healthCheckWaitL ==
    /\ hcL.pc = "sleep"
    /\ now >= hcL.sleepUntil
    /\ mu.writer = "none"
    /\ mu.readers > 0
    /\ mu' = [mu EXCEPT !.writer = "waiting"]
    /\ UNCHANGED <<config, now, hcL, cycleL, handlerL>>
    /\ UNCHANGED registryL
    /\ UNCHANGED atomicVars

\* The cycle starts without emptying HealthyBackends.
healthCheckLockLMutant ==
    /\ hcL.pc = "sleep"
    /\ now >= hcL.sleepUntil
    /\ mu.readers = 0
    /\ mu' = [mu EXCEPT !.writer = "held"]
    /\ hcL' = [hcL EXCEPT !.pc = "cycle", !.i = 0]
    /\ cycleL' = [i \in BackendIdx |-> CycleEntry(FALSE, FALSE, "none")]
    /\ UNCHANGED <<config, now, handlerL>>
    /\ UNCHANGED <<Up, FailTime, Last, IPAddr, HealthyBackends, dnsCache, lookedUp>>
    /\ UNCHANGED atomicVars

\* The cycle starts: the lock is taken and HealthyBackends is emptied.
healthCheckLockL ==
    /\ hcL.pc = "sleep"
    /\ now >= hcL.sleepUntil
    /\ mu.readers = 0
    /\ mu' = [mu EXCEPT !.writer = "held"]
    /\ HealthyBackends' = <<>>
    /\ hcL' = [hcL EXCEPT !.pc = "cycle", !.i = 0]
    /\ cycleL' = [i \in BackendIdx |-> CycleEntry(FALSE, FALSE, "none")]
    /\ UNCHANGED <<config, now, handlerL>>
    /\ UNCHANGED <<Up, FailTime, Last, IPAddr, dnsCache, lookedUp>>
    /\ UNCHANGED atomicVars

\* The comparison turned around: only old failures are skipped.
recentFailureMutant(failTime) == now - failTime > failureWindow

\* time.Since(backend.FailTime) < failureWindow
recentFailure(failTime) == now - failTime < failureWindow

\* What net.ResolveIPAddr gives for a host: the empty host resolves to the
\* empty address, any other host resolves or fails.
IPOf(host) == IF host = "" THEN "" ELSE "ip." \o host
LookupOutcomes(host) ==
    IF host = "" THEN {[err |-> FALSE, ip |-> IPOf(host)]}
    ELSE {[err |-> FALSE, ip |-> IPOf(host)], [err |-> TRUE, ip |-> ""]}

\* The cache is written but never read: every call looks the host up.
resolveHostLMutant(host, lookup) ==
    IF lookup.err
    THEN [err |-> TRUE, ip |-> "", looked |-> TRUE, cache |-> dnsCache]
    ELSE [err |-> FALSE, ip |-> lookup.ip, looked |-> TRUE,
          cache |-> [dnsCache EXCEPT ![host] = lookup.ip]]

\* resolveHost: the cached address, or else the result of a lookup, which
\* is cached when it succeeds.
resolveHostL(host, lookup) ==
    IF dnsCache[host] # NotCached
    THEN [err |-> FALSE, ip |-> dnsCache[host], looked |-> FALSE,
          cache |-> dnsCache]
    ELSE IF lookup.err
    THEN [err |-> TRUE, ip |-> "", looked |-> TRUE, cache |-> dnsCache]
    ELSE [err |-> FALSE, ip |-> lookup.ip, looked |-> TRUE,
          cache |-> [dnsCache EXCEPT ![host] = lookup.ip]]

\* What client.Get("http://" + ip + health) can return, and how long it
\* took: a URL without a host is an error at once, a timeout takes
\* httpTimeout.
GetOutcomesL(ip) ==
    IF ip = "" THEN {[got |-> TransportError, took |-> 0]}
    ELSE {[got |-> TransportError, took |-> 0],
          [got |-> TransportError, took |-> httpTimeoutL],
          [got |-> Response(StatusOK), took |-> 0],
          [got |-> Response(StatusInternalServerError), took |-> 0]}

\* resp.StatusCode == http.StatusOK
statusUpL(got) == got.StatusCode = StatusOK

\* The iteration skips a backend that failed less than failureWindow ago.
healthCheckSkipL(i) ==
    /\ cycleL' = [cycleL EXCEPT ![i] = CycleEntry(FALSE, FALSE, "skipped")]
    /\ UNCHANGED <<now, Up, FailTime, Last, IPAddr, HealthyBackends, dnsCache,
                   lookedUp>>

\* The failure time left out, as on the non-200 branch.
healthCheckDNSFailedLMutant(i) ==
    /\ Up' = [Up EXCEPT ![i] = FALSE]
    /\ cycleL' = [cycleL EXCEPT ![i] = CycleEntry(TRUE, FALSE, "dns failed")]
    /\ UNCHANGED <<now, FailTime, Last, IPAddr, HealthyBackends, dnsCache>>

\* resolveHost failed: the backend is down as of now.
healthCheckDNSFailedL(i) ==
    /\ Up' = [Up EXCEPT ![i] = FALSE]
    /\ FailTime' = [FailTime EXCEPT ![i] = now]
    /\ cycleL' = [cycleL EXCEPT ![i] = CycleEntry(TRUE, FALSE, "dns failed")]
    /\ UNCHANGED <<now, Last, IPAddr, HealthyBackends, dnsCache>>

\* A backend that answers 200 is marked up but not put back on the list.
healthCheckGetLMutant(i, r, get) ==
    /\ now + get.took <= MaxTimeL
    /\ dnsCache' = r.cache
    /\ IPAddr' = [IPAddr EXCEPT ![i] = r.ip]
    /\ now' = now + get.took
    /\ IF get.got.err
       THEN /\ Up' = [Up EXCEPT ![i] = FALSE]
            /\ FailTime' = [FailTime EXCEPT ![i] = now']
            /\ cycleL' = [cycleL EXCEPT
                            ![i] = CycleEntry(r.looked, TRUE, "error")]
            /\ UNCHANGED <<Last, HealthyBackends>>
       ELSE /\ Up' = [Up EXCEPT ![i] = statusUpL(get.got)]
            /\ IF statusUpL(get.got)
               THEN /\ Last' = [Last EXCEPT ![i] = now']
                    /\ cycleL' = [cycleL EXCEPT
                                    ![i] = CycleEntry(r.looked, TRUE, "200")]
                    /\ UNCHANGED HealthyBackends
               ELSE /\ cycleL' = [cycleL EXCEPT
                                    ![i] = CycleEntry(r.looked, TRUE, "not 200")]
                    /\ UNCHANGED <<Last, HealthyBackends>>
            /\ UNCHANGED FailTime

\* client.Get and its result, without recording the address.
healthCheckGetLNoAddrMutant(i, r, get) ==
    /\ now + get.took <= MaxTimeL
    /\ dnsCache' = r.cache
    /\ UNCHANGED IPAddr
    /\ now' = now + get.took
    /\ IF get.got.err
       THEN /\ Up' = [Up EXCEPT ![i] = FALSE]
            /\ FailTime' = [FailTime EXCEPT ![i] = now']
            /\ cycleL' = [cycleL EXCEPT
                            ![i] = CycleEntry(r.looked, TRUE, "error")]
            /\ UNCHANGED <<Last, HealthyBackends>>
       ELSE /\ Up' = [Up EXCEPT ![i] = statusUpL(get.got)]
            /\ IF statusUpL(get.got)
               THEN /\ HealthyBackends' = Append(HealthyBackends, i)
                    /\ Last' = [Last EXCEPT ![i] = now']
                    /\ cycleL' = [cycleL EXCEPT
                                    ![i] = CycleEntry(r.looked, TRUE, "200")]
               ELSE /\ cycleL' = [cycleL EXCEPT
                                    ![i] = CycleEntry(r.looked, TRUE, "not 200")]
                    /\ UNCHANGED <<Last, HealthyBackends>>
            /\ UNCHANGED FailTime

\* The address is recorded, then client.Get and its result.
healthCheckGetL(i, r, get) ==
    /\ now + get.took <= MaxTimeL
    /\ dnsCache' = r.cache
    /\ IPAddr' = [IPAddr EXCEPT ![i] = r.ip]
    /\ now' = now + get.took
    /\ IF get.got.err
       THEN /\ Up' = [Up EXCEPT ![i] = FALSE]
            /\ FailTime' = [FailTime EXCEPT ![i] = now']
            /\ cycleL' = [cycleL EXCEPT
                            ![i] = CycleEntry(r.looked, TRUE, "error")]
            /\ UNCHANGED <<Last, HealthyBackends>>
       ELSE /\ Up' = [Up EXCEPT ![i] = statusUpL(get.got)]
            /\ IF statusUpL(get.got)
               THEN /\ HealthyBackends' = Append(HealthyBackends, i)
                    /\ Last' = [Last EXCEPT ![i] = now']
                    /\ cycleL' = [cycleL EXCEPT
                                    ![i] = CycleEntry(r.looked, TRUE, "200")]
               ELSE /\ cycleL' = [cycleL EXCEPT
                                    ![i] = CycleEntry(r.looked, TRUE, "not 200")]
                    /\ UNCHANGED <<Last, HealthyBackends>>
            /\ UNCHANGED FailTime

\* One iteration of the loop over config.Backends, under the lock.
healthCheckBackendL ==
    /\ hcL.pc = "cycle"
    /\ hcL.i < NumBackends
    /\ LET i == hcL.i
           host == config.Backends[i].Host
       IN IF recentFailure(FailTime[i])
          THEN healthCheckSkipL(i)
          ELSE \E lookup \in LookupOutcomes(host) :
                 LET r == resolveHostL(host, lookup)
                 IN /\ lookedUp' = IF r.looked THEN lookedUp \cup {host}
                                   ELSE lookedUp
                    /\ IF r.err
                       THEN healthCheckDNSFailedL(i)
                       ELSE \E get \in GetOutcomesL(r.ip) :
                              healthCheckGetL(i, r, get)
    /\ hcL' = [hcL EXCEPT !.i = hcL.i + 1]
    /\ UNCHANGED <<config, mu, handlerL>>
    /\ UNCHANGED atomicVars

\* A cycle that leaves the lock held when it goes to sleep.
healthCheckUnlockLMutant ==
    /\ hcL.pc = "cycle"
    /\ hcL.i = NumBackends
    /\ hcL' = [hcL EXCEPT !.pc = "sleep", !.sleepUntil = now + config.Interval]
    /\ UNCHANGED <<config, now, mu, cycleL, handlerL>>
    /\ UNCHANGED registryL
    /\ UNCHANGED atomicVars

\* The cycle ends: mu.Unlock(), then time.Sleep.
healthCheckUnlockL ==
    /\ hcL.pc = "cycle"
    /\ hcL.i = NumBackends
    /\ mu' = [mu EXCEPT !.writer = "none"]
    /\ hcL' = [hcL EXCEPT !.pc = "sleep", !.sleepUntil = now + config.Interval]
    /\ UNCHANGED <<config, now, cycleL, handlerL>>
    /\ UNCHANGED registryL
    /\ UNCHANGED atomicVars

\* The sleep ends.
TickL ==
    /\ hcL.pc = "sleep"
    /\ now < hcL.sleepUntil
    /\ hcL.sleepUntil <= MaxTimeL
    /\ now' = hcL.sleepUntil
    /\ UNCHANGED <<config, mu, hcL, cycleL, handlerL>>
    /\ UNCHANGED registryL
    /\ UNCHANGED atomicVars

\* A request arrives and waits for mu.RLock().
proxyHandlerArriveL ==
    /\ handlerL.pc \in {"idle", "done"}
    /\ handlerL' = [pc |-> "rlock", backend |-> NoBackend, IPAddr |-> NoIP,
                    outReq |-> NoReq, roundTrip |-> NoOutcome, resp |-> NoResp]
    /\ UNCHANGED <<config, now, mu, hcL, cycleL>>
    /\ UNCHANGED registryL
    /\ UNCHANGED atomicVars

\* http.Error(w, "502 Bad Gateway", http.StatusBadGateway)
NoHealthyResponseL == [by |-> "proxy", status |-> StatusBadGateway]

\* The director: the target is the backend's recorded address.
DirectorL(i, ip) == [sent |-> TRUE, to |-> i, header |-> EmptyHeader, host |-> ip]

\* Under the read lock: no healthy backend is a 502; otherwise a random
\* element of HealthyBackends, a copy of its Backend, and the outbound
\* request.
proxyHandlerSelectL ==
    /\ handlerL.pc = "rlock"
    /\ mu.writer = "none"
    /\ IF Len(HealthyBackends) = 0
       THEN /\ handlerL' = [handlerL EXCEPT !.pc = "done",
                                            !.resp = NoHealthyResponseL]
            /\ UNCHANGED mu
       ELSE /\ mu' = [mu EXCEPT !.readers = mu.readers + 1]
            /\ \E k \in 0 .. (Len(HealthyBackends) - 1) :
                  LET backendIndex == randomPick(HealthyBackends, k)
                  IN handlerL' = [handlerL EXCEPT
                        !.pc = "forward",
                        !.backend = backendIndex,
                        !.IPAddr = IPAddr[backendIndex],
                        !.outReq = DirectorL(backendIndex, IPAddr[backendIndex])]
    /\ UNCHANGED <<config, now, hcL, cycleL>>
    /\ UNCHANGED registryL
    /\ UNCHANGED atomicVars

\* httputil.ReverseProxy without an ErrorHandler answers a transport error
\* with 502.
defaultErrorHandlerL == [by |-> "proxy", status |-> StatusBadGateway]

\* The round trip ends, the answer is written, the deferred RUnlock runs.
proxyHandlerFinishL(outcome) ==
    /\ handlerL.pc = "forward"
    /\ handlerL' = [handlerL EXCEPT
          !.pc = "done",
          !.roundTrip = outcome,
          !.resp = IF outcome.err THEN defaultErrorHandlerL
                   ELSE [by |-> "backend", status |-> outcome.StatusCode]]
    /\ mu' = [mu EXCEPT !.readers = mu.readers - 1]
    /\ UNCHANGED <<config, now, hcL, cycleL>>
    /\ UNCHANGED registryL
    /\ UNCHANGED atomicVars

NextL ==
    \/ healthCheckWaitL
    \/ healthCheckLockL
    \/ healthCheckBackendL
    \/ healthCheckUnlockL
    \/ TickL
    \/ proxyHandlerArriveL
    \/ proxyHandlerSelectL
    \/ \E o \in ForwardOutcomes : proxyHandlerFinishL(o)

SpecL == InitL /\ [][NextL]_vars

\* ------------------------------- the lock-based variant as it keeps running
\* time.Time has no origin the program depends on: only time.Since(FailTime)
\* and the end of the sleep are compared with the clock.  When the sleep
\* ends beyond MaxTimeL the origin is moved to now; a FailTime that is
\* failureWindow old or older stays at that age, and Last, which the program
\* writes and never reads, is taken back to the zero time.
Older(t, age) == IF t - age < ZeroTime THEN ZeroTime ELSE t - age
RebaseL ==
    /\ hcL.pc = "sleep"
    /\ now < hcL.sleepUntil
    /\ hcL.sleepUntil > MaxTimeL
    /\ now' = 0
    /\ hcL' = [hcL EXCEPT !.sleepUntil = hcL.sleepUntil - now]
    /\ FailTime' = [i \in BackendIdx |-> Older(FailTime[i], now)]
    /\ Last' = [i \in BackendIdx |-> ZeroTime]
    /\ UNCHANGED <<config, Up, IPAddr, HealthyBackends, dnsCache, lookedUp, mu,
                   cycleL, handlerL>>
    /\ UNCHANGED atomicVars

\* The prober on its own: no request arrives, so mu.Lock() never waits.
NextProberL ==
    \/ healthCheckLockL
    \/ healthCheckBackendL
    \/ healthCheckUnlockL
    \/ TickL
    \/ RebaseL

\* The scheduling the prober relies on: its goroutine runs when it can, and
\* time passes.
FairnessL ==
    /\ WF_vars(healthCheckLockL)
    /\ WF_vars(healthCheckBackendL)
    /\ WF_vars(healthCheckUnlockL)
    /\ WF_vars(TickL)
    /\ WF_vars(RebaseL)

FairSpecL == InitL /\ [][NextProberL]_vars /\ FairnessL

\* The prober and the requests together.
NextServeL == NextL \/ RebaseL

\* The scheduling both rely on.  mu.Lock() announces the writer as soon as
\* the sleep is over and returns once the readers have left; mu.Unlock()
\* hands the lock to the readers that wait before the next mu.Lock() can
\* take it, so a request that waits again and again gets the read lock; a
\* round trip ends.  Nothing is assumed about requests arriving.
FairnessServeL ==
    /\ WF_vars(healthCheckWaitL \/ healthCheckLockL)
    /\ WF_vars(healthCheckBackendL)
    /\ WF_vars(healthCheckUnlockL)
    /\ WF_vars(TickL)
    /\ WF_vars(RebaseL)
    /\ SF_vars(proxyHandlerSelectL)
    /\ WF_vars(\E o \in ForwardOutcomes : proxyHandlerFinishL(o))

FairServeSpecL == InitL /\ [][NextServeL]_vars /\ FairnessServeL

\* ------------------------------------- specification, atomic variant
\* instants is a history variable: it plays no part in what the program does
\* and stays empty unless the calls of getHealthyBackend are observed.
Next ==
    \/ healthCheck /\ UNCHANGED instants
    \/ \E p \in probes : probeNewRequest(p) /\ UNCHANGED instants
    \/ \E p \in probes, o \in ProbeOutcomes : probeDo(p, o) /\ UNCHANGED instants
    \/ Tick /\ UNCHANGED instants
    \/ \E r \in ClientHeaders : proxyHandlerStart(r) /\ UNCHANGED instants
    \/ getHealthyBackendLoad /\ UNCHANGED instants
    \/ getHealthyBackendReturn /\ UNCHANGED instants
    \/ proxyHandlerServe /\ UNCHANGED instants
    \/ \E o \in ForwardOutcomes : proxyHandlerFinish(o) /\ UNCHANGED instants

Spec == Init /\ [][Next]_vars

\* --------------------- the atomic variant with getHealthyBackend observed
\* A flag vector agrees with the loads getHealthyBackend has made when it has
\* a 1 exactly at the loaded backends that are in the local slice.
Agrees(flags, loaded, slice) ==
    \A i \in 0 .. (loaded - 1) :
        flags[i] = 1 <=> \E k \in 1 .. Len(slice) : slice[k] = i

\* What a step adds to the history.  The call starts with the flags as they
\* are; while it runs, every step leaves the moments so far, the present one
\* included, that agree with the loads made so far; the history is dropped
\* when the call returns.
ObserveStep ==
    instants' = IF hPc' # "scan" THEN {}
                ELSE IF hPc # "scan" THEN {Health'}
                ELSE {flags \in instants \cup {Health'} :
                         Agrees(flags, hI', healthyBackends')}

NextObserved ==
    \/ healthCheck /\ ObserveStep
    \/ \E p \in probes : probeNewRequest(p) /\ ObserveStep
    \/ \E p \in probes, o \in ProbeOutcomes : probeDo(p, o) /\ ObserveStep
    \/ Tick /\ ObserveStep
    \/ \E r \in ClientHeaders : proxyHandlerStart(r) /\ ObserveStep
    \/ getHealthyBackendLoad /\ ObserveStep
    \/ getHealthyBackendReturn /\ ObserveStep
    \/ proxyHandlerServe /\ ObserveStep
    \/ \E o \in ForwardOutcomes : proxyHandlerFinish(o) /\ ObserveStep

SpecObserved == Init /\ [][NextObserved]_vars

\* ----------------------------- the transport's timeouts, for any config
\* What yaml.Unmarshal gives a time.Duration field: 0 when the key is left
\* out, n nanoseconds for the integer n, time.ParseDuration for "5s", "10s".
YamlDurations == {Int64(0), Int64(5), ParseDuration(5), ParseDuration(10)}

RawConfigsTimeouts ==
    { [RawConfig(0, <<>>, "", FALSE) EXCEPT
          !.DialTimeout = d[1], !.DialKeepAlive = d[2],
          !.TLSHandshakeTimeout = d[3], !.ResponseHeaderTimeout = d[4],
          !.ExpectContinueTimeout = d[5]] : d \in [1 .. 5 -> YamlDurations] }

InitTransport ==
    /\ config \in {loadConfig(raw) : raw \in RawConfigsTimeouts}
    /\ now = 0
    /\ Health = [i \in BackendIdx |-> 0]
    /\ sleepUntil = 0
    /\ probes = {}
    /\ lastOutcome = [i \in BackendIdx |-> [start |-> -1, got |-> NoOutcome]]
    /\ instants = {}
    /\ hPc = "idle"
    /\ hI = 0
    /\ healthyBackends = <<>>
    /\ backend = NoBackend
    /\ req = EmptyHeader
    /\ outReq = NoReq
    /\ roundTrip = NoOutcome
    /\ resp = NoResp
    /\ transport = NoTransport
    /\ InitLockVars

\* The timeouts proxyHandler computes for a request, on their own.
proxyHandlerTransport ==
    /\ transport = NoTransport
    /\ transport' = Transport
    /\ UNCHANGED <<config, now, instants, hPc, hI, healthyBackends, backend, req,
                   outReq, roundTrip, resp>>
    /\ UNCHANGED proberVars
    /\ UNCHANGED lockVars

SpecTransport == InitTransport /\ [][proxyHandlerTransport]_vars

\* =============================================================== claims
Range(list) == {list[k] : k \in 1 .. Len(list)}
ProxyAnswer(status) == [by |-> "proxy", status |-> status]

\* C1 as stated: at the step where getHealthyBackend returns a backend, that
\* backend's Health flag is 1.
C1_HealthyWhenReturned ==
    [][(hPc = "scan" /\ hPc' = "selected") => Health'[backend'] = 1]_vars

\* C1 as amended: getHealthyBackend appends a backend to its slice only at a
\* load that reads the flag as 1, it leaves out every backend it loads as 0,
\* and the backend it returns is an element of that slice.
C1_HealthyWhenLoaded ==
    [][/\ (hPc = "scan" /\ hI' = hI + 1) =>
            healthyBackends' = IF Health[hI] = 1
                               THEN Append(healthyBackends, hI)
                               ELSE healthyBackends
       /\ (hPc = "scan" /\ hPc' = "selected") =>
            backend' \in Range(healthyBackends)]_vars

\* C1's case: a backend has been returned and a probe has stored 0 into its
\* flag since the selector loaded it.
C1_Witness == hPc = "selected" /\ Health[backend] = 0

\* C2: when the probes of the newest round have all returned (none is in
\* flight), the flag of every backend is 1 exactly if that round's probe of
\* it returned 200.
C2_FlagIsCycleResult ==
    \A i \in BackendIdx :
        (probes = {} /\ lastOutcome[i].got.state \in {"done", "norequest"}) =>
            (Health[i] = 1 <=> (/\ ~lastOutcome[i].got.err
                                /\ lastOutcome[i].got.StatusCode = StatusOK))

\* C3: no two probes of the same backend are in flight at the same time.
C3_RoundsNeverOverlap ==
    \A p, q \in probes : p.i = q.i => p.start = q.start

C5_AllDown502 ==
    (hPc = "done" /\ healthyBackends = <<>>) => resp.status = StatusBadGateway

\* C6 as stated: the handler's own answers are 503 and 502 only.
C6_ThreeKinds ==
    (hPc = "done" /\ resp.by = "proxy") =>
        resp.status \in {StatusServiceUnavailable, StatusBadGateway}

\* C6 as amended: an answered request got 503 (no backend up at selection,
\* nothing sent), 500 (the selected backend's URL does not parse, nothing
\* sent), 502 (the outbound call failed at the transport level) or the
\* backend's own status (the outbound call returned a response).
C6_FourKinds ==
    hPc = "done" =>
        \/ /\ resp = ProxyAnswer(StatusServiceUnavailable)
           /\ healthyBackends = <<>> /\ backend = NoBackend /\ ~outReq.sent
        \/ /\ resp = ProxyAnswer(StatusInternalServerError)
           /\ backend \in Range(healthyBackends)
           /\ ~validEscapes(config.Backends[backend].URL)
           /\ ~outReq.sent
        \/ /\ resp = ProxyAnswer(StatusBadGateway)
           /\ outReq.sent /\ outReq.to = backend
           /\ roundTrip.state = "done" /\ roundTrip.err
        \/ /\ resp = [by |-> "backend", status |-> roundTrip.StatusCode]
           /\ outReq.sent /\ outReq.to = backend
           /\ roundTrip.state = "done" /\ ~roundTrip.err

\* C6's case: a healthy backend whose URL does not parse was selected and
\* the handler answered 500.
C6_Witness ==
    /\ hPc = "done"
    /\ resp = ProxyAnswer(StatusInternalServerError)
    /\ backend # NoBackend

C8_BearerToken ==
    /\ \A p \in probes : p.pc = "sent" =>
          /\ p.header["Authorization"] =
                IF config.BearerToken # ""
                THEN <<"Bearer ", config.BearerToken>> ELSE Absent
    /\ outReq.sent =>
          /\ outReq.header["Authorization"] =
                IF config.BearerToken # ""
                THEN <<"Bearer ", config.BearerToken>>
                ELSE req["Authorization"]
          /\ outReq.header["Accept"] = req["Accept"]

\* C8's case: a token is configured, the client sent its own Authorization,
\* a probe request and the outbound request are both out.
C8_Witness ==
    /\ config.BearerToken # ""
    /\ req["Authorization"] # Absent
    /\ outReq.sent
    /\ \E p \in probes : p.pc = "sent"

\* C9: the iteration of a backend that failed less than failureWindow ago
\* issues no lookup and no health request and changes nothing of the
\* registry; and no other step changes that backend's Up or FailTime.
C9_SkipRecentFailure ==
    [][\A j \in BackendIdx :
         /\ (hcL.pc = "cycle" /\ hcL.i = j /\ hcL'.i = j + 1
                /\ now - FailTime[j] < failureWindow) =>
               /\ ~cycleL'[j].lookup
               /\ ~cycleL'[j].request
               /\ Up'[j] = Up[j]
               /\ FailTime'[j] = FailTime[j]
               /\ <<Last, IPAddr, HealthyBackends, dnsCache, now>>' =
                     <<Last, IPAddr, HealthyBackends, dnsCache, now>>
         /\ (Up'[j] # Up[j] \/ FailTime'[j] # FailTime[j]) =>
               /\ hcL.pc = "cycle" /\ hcL.i = j
               /\ now - FailTime[j] >= failureWindow]_vars

\* C9's case: the running cycle has skipped a backend that failed less than
\* failureWindow ago.
C9_Witness ==
    \E j \in BackendIdx :
        /\ hcL.pc = "cycle" /\ hcL.i > j
        /\ cycleL[j].result = "skipped"
        /\ FailTime[j] >= 0
        /\ now - FailTime[j] < failureWindow

\* C10: the iteration of a probed backend ends with Up and Last = now on a
\* 200, and with Up false and FailTime = now on any other status and on a
\* transport error.
C10_FailureRecorded ==
    [][\A j \in BackendIdx :
         (hcL.pc = "cycle" /\ hcL.i = j /\ hcL'.i = j + 1
             /\ cycleL'[j].request) =>
            IF cycleL'[j].result = "200"
            THEN Up'[j] /\ Last'[j] = now'
            ELSE ~Up'[j] /\ FailTime'[j] = now']_vars

\* The probes of backend j that have been made in the running or last cycle
\* have not failed.
NoFailureL(j) == cycleL[j].result \in {"none", "skipped", "200"}

\* C11: a backend whose failure window is over is probed in the cycle's
\* iteration for it; an iteration that gets a 200 marks the backend up and
\* puts it on the healthy list, and between cycles, when requests select,
\* the backends of the last cycle that answered 200 are up and on the list;
\* and a backend whose probes stop failing from some point on is from some
\* point on up, and again and again on the list while requests can select.
C11_Recovery ==
    /\ [][\A j \in BackendIdx :
            (hcL.pc = "cycle" /\ hcL.i = j /\ hcL'.i = j + 1) =>
               /\ now - FailTime[j] >= failureWindow =>
                     cycleL'[j].lookup \/ cycleL'[j].request
               /\ cycleL'[j].result = "200" =>
                     /\ Up'[j]
                     /\ j \in Range(HealthyBackends')]_vars
    /\ [][\A j \in BackendIdx :
            (hcL'.pc = "sleep" /\ cycleL'[j].result = "200") =>
               Up'[j] /\ j \in Range(HealthyBackends')]_vars
    /\ \A j \in BackendIdx :
          <>[]NoFailureL(j) =>
             /\ <>[]Up[j]
             /\ []<>(hcL.pc = "sleep" /\ j \in Range(HealthyBackends))

\* C11's case: a backend failed a probe, its failure window has elapsed, it
\* has answered 200 to the probe of the running cycle and is on the list.
C11_Witness ==
    \E j \in BackendIdx :
        /\ FailTime[j] > ZeroTime
        /\ now - FailTime[j] >= failureWindow
        /\ cycleL[j].result = "200"
        /\ Up[j]
        /\ j \in Range(HealthyBackends)

\* C12 as stated: no lookup is issued for a host for which a lookup was
\* issued before.
C12_OneLookupPerHost ==
    [][\A j \in BackendIdx :
         (hcL.pc = "cycle" /\ hcL.i = j /\ hcL'.i = j + 1 /\ cycleL'[j].lookup) =>
            config.Backends[j].Host \notin lookedUp]_vars

\* C12 as amended: a lookup is issued only for a host that is not in the
\* cache; a call for a cached host is served from the cache, without a
\* lookup; a cached address never changes or expires, and the cache gets an
\* entry only for the host of the call and only from a lookup.  So a host is
\* looked up successfully at most once, and a lookup that fails leaves the
\* host uncached for the next call to look up again.
C12_OneSuccessfulLookupPerHost ==
    [][/\ \A j \in BackendIdx :
            (hcL.pc = "cycle" /\ hcL.i = j /\ hcL'.i = j + 1) =>
               LET host == config.Backends[j].Host
               IN /\ cycleL'[j].lookup =>
                        /\ dnsCache[host] = NotCached
                        /\ host \in lookedUp'
                  /\ (dnsCache[host] # NotCached /\ cycleL'[j].result # "skipped") =>
                        /\ ~cycleL'[j].lookup
                        /\ cycleL'[j].request
                        /\ IPAddr'[j] = dnsCache[host]
                        /\ lookedUp' = lookedUp
                  /\ \A h \in HostNames :
                        dnsCache'[h] # dnsCache[h] => h = host /\ cycleL'[j].lookup
       /\ \A h \in HostNames :
            /\ dnsCache[h] # NotCached => dnsCache'[h] = dnsCache[h]
            /\ dnsCache'[h] # dnsCache[h] => hcL.pc = "cycle" /\ hcL'.i = hcL.i + 1]_vars

\* C12's case: a host was looked up in an earlier cycle, and in the running
\* cycle its backend got its health request without a lookup.
C12_Witness ==
    \E j \in BackendIdx :
        /\ config.Backends[j].Host \in lookedUp
        /\ dnsCache[config.Backends[j].Host] # NotCached
        /\ cycleL[j].request
        /\ ~cycleL[j].lookup

\* C13: a step of proxyHandler, whatever the request's outcome, leaves every
\* Health flag and the whole state of the prober as it was; a flag changes
\* only in a step in which a probe goroutine of that backend returns.
C13_HandlerKeepsHealth ==
    [][/\ handlerVars' # handlerVars =>
            /\ Health' = Health
            /\ probes' = probes
            /\ sleepUntil' = sleepUntil
            /\ lastOutcome' = lastOutcome
       /\ Health' # Health =>
            /\ handlerVars' = handlerVars
            /\ \E p \in probes :
                  /\ p \notin probes'
                  /\ \A i \in BackendIdx : Health'[i] # Health[i] => i = p.i]_vars

\* C13's case: the outbound call to a backend failed, the request was
\* answered 502, and the backend's flag is still 1.
C13_Witness ==
    /\ hPc = "done"
    /\ roundTrip.err
    /\ resp = ProxyAnswer(StatusBadGateway)
    /\ backend # NoBackend
    /\ Health[backend] = 1

\* C14: within one request the handler only moves forward, from the scan
\* over selection and the outbound call to the answer: a selected backend
\* and a sent outbound request stay what they are until the next request
\* arrives, and the end of the round trip, failed or not, ends the request.
C14_NoRetry ==
    [][/\ hPc' = "scan" => hPc \in {"idle", "done", "scan"}
       /\ hPc' = "selected" => hPc \in {"scan", "selected"}
       /\ hPc' = "forward" => hPc \in {"selected", "forward"}
       /\ (hPc \in {"selected", "forward"} \/ (hPc = "done" /\ hPc' = "done")) =>
            backend' = backend
       /\ (hPc = "forward" \/ (hPc = "done" /\ hPc' = "done")) =>
            outReq' = outReq
       /\ (~outReq.sent /\ outReq'.sent) =>
            hPc = "selected" /\ outReq'.to = backend
       /\ (hPc = "forward" /\ hPc' # "forward") =>
            /\ hPc' = "done"
            /\ roundTrip'.state = "done"
            /\ resp'.by # "none"]_vars

\* C14's case: the outbound call failed while another backend's flag was 1,
\* and the request has been answered without a second attempt.
C14_Witness ==
    /\ hPc = "done"
    /\ outReq.sent
    /\ roundTrip.err
    /\ \E i \in BackendIdx : i # outReq.to /\ Health[i] = 1

\* No probe of backend b has returned a 200 so far: only the probes of the
\* first round have been dispatched, and b's has not returned a 200.
NoSuccessYet(b) ==
    /\ lastOutcome[b].start <= 0
    /\ lastOutcome[b].got # Response(StatusOK)

\* Until a probe of b has returned 200, b's flag is 0, b is in no healthy
\* slice, b is not selected and nothing is sent to b; and a request answered
\* before any probe has returned 200 is answered 503.
StartsUnhealthy ==
    /\ \A b \in BackendIdx :
          NoSuccessYet(b) =>
             /\ Health[b] = 0
             /\ b \notin Range(healthyBackends)
             /\ backend # b
             /\ outReq.sent => outReq.to # b
    /\ (hPc = "done" /\ \A b \in BackendIdx : NoSuccessYet(b)) =>
          resp = ProxyAnswer(StatusServiceUnavailable)

C16_KeepsProbingAndServing ==
    /\ []<>(hcL.pc = "cycle" /\ hcL.i = 0)
    /\ (handlerL.pc = "rlock") ~> (handlerL.pc = "done")

\* C16's case: a cycle in which no backend was found healthy, one of them by
\* a failed lookup, is over, and a request has been answered 502 by the
\* proxy.
C16_AllDownWitness ==
    /\ hcL.pc = "sleep"
    /\ HealthyBackends = <<>>
    /\ \E j \in BackendIdx : cycleL[j].result = "dns failed"
    /\ \A j \in BackendIdx : cycleL[j].result \in {"dns failed", "error", "not 200"}
    /\ handlerL.pc = "done"
    /\ handlerL.resp = NoHealthyResponseL

\* C17: a handler that is at its read of the health state can make it at
\* once, whatever the prober is doing, and a prober whose cycle is due can
\* start writing at once, whatever the handlers are doing.
C17_NoBlocking ==
    /\ handlerL.pc = "rlock" => ENABLED proxyHandlerSelectL
    /\ (hcL.pc = "sleep" /\ now >= hcL.sleepUntil) => ENABLED healthCheckLockL

\* C18 as stated: when getHealthyBackend returns, there is a moment of the
\* call at which the flags that were 1 are exactly the backends in its slice.
C18_ConsistentInstant ==
    [][(hPc = "scan" /\ hPc' # "scan") => instants # {}]_vars

\* C18 as amended: every load decides for its own backend by the flag as it
\* is at the moment of that load, a backend is in the slice exactly if its
\* flag was loaded as 1, no other step changes the slice during the call,
\* and the returned backend is taken from it.
C18_ConsistentPerLoad ==
    [][/\ (hPc = "scan" /\ hI' = hI + 1) =>
            /\ hI \in Range(healthyBackends') <=> Health[hI] = 1
            /\ \A i \in BackendIdx \ {hI} :
                  i \in Range(healthyBackends') <=> i \in Range(healthyBackends)
       /\ (hPc = "scan" /\ hI' = hI) =>
            healthyBackends' = healthyBackends
       /\ (hPc = "scan" /\ hPc' # "scan") =>
            /\ hI = NumBackends
            /\ backend' # NoBackend => backend' \in Range(healthyBackends)
            /\ backend' = NoBackend <=> healthyBackends = <<>>]_vars

\* C18's case: every flag has been loaded, two backends are in the slice,
\* and at no moment of the call were the flags what the slice says.
C18_Witness ==
    /\ hPc = "scan"
    /\ hI = NumBackends
    /\ Len(healthyBackends) >= 2
    /\ instants = {}

\* C19: an iteration whose lookup fails (a lookup was issued and the host is
\* still not cached) ends with the backend down and FailTime = now, issues
\* no health request, takes no time, and leaves the addresses, the healthy
\* list and every other backend's fields and cycle record as they were; the
\* loop goes on with the next backend.
C19_ResolveFailure ==
    [][\A j \in BackendIdx :
         (/\ hcL.pc = "cycle" /\ hcL.i = j /\ hcL'.i = j + 1
          /\ cycleL'[j].lookup
          /\ dnsCache'[config.Backends[j].Host] = NotCached) =>
            /\ ~Up'[j]
            /\ FailTime'[j] = now
            /\ now' = now
            /\ ~cycleL'[j].request
            /\ cycleL'[j].result = "dns failed"
            /\ <<IPAddr, Last, HealthyBackends, dnsCache>>' =
                  <<IPAddr, Last, HealthyBackends, dnsCache>>
            /\ \A k \in BackendIdx \ {j} :
                  /\ Up'[k] = Up[k]
                  /\ FailTime'[k] = FailTime[k]
                  /\ cycleL'[k] = cycleL[k]
            /\ hcL'.pc = "cycle"]_vars

\* C19's case: in the running cycle the lookup for one backend failed at this
\* very moment and a later backend was probed and answered 200.
C19_Witness ==
    \E j, k \in BackendIdx :
        /\ j < k
        /\ cycleL[j].result = "dns failed"
        /\ ~Up[j]
        /\ FailTime[j] = now
        /\ cycleL[k].result = "200"
        /\ Up[k]

\* C20: the timeout of a health probe is shorter than the interval the
\* loader has set, so the deadline of every probe that is out lies before
\* the start of the round after its own.
C20_TimeoutShorterThanInterval ==
    /\ httpTimeout < config.Interval
    /\ \A p \in probes :
          p.pc = "sent" => p.deadline < p.start + config.Interval

\* The timeout C21 states for a configured value: the fixed number of seconds
\* when the value is 0, otherwise the value itself.
AsConfigured(seconds, configured) ==
    IF configured = Int64(0) THEN ParseDuration(seconds) ELSE configured

\* C21: each of the five timeouts of the request's transport is the duration
\* configured for it, or 5s, 30s, 5s, 5s and 1s when none is configured.
C21_TimeoutsAsConfigured ==
    transport.set =>
        /\ transport.Timeout = AsConfigured(5, config.DialTimeout)
        /\ transport.KeepAlive = AsConfigured(30, config.DialKeepAlive)
        /\ transport.TLSHandshakeTimeout =
              AsConfigured(5, config.TLSHandshakeTimeout)
        /\ transport.ResponseHeaderTimeout =
              AsConfigured(5, config.ResponseHeaderTimeout)
        /\ transport.ExpectContinueTimeout =
              AsConfigured(1, config.ExpectContinueTimeout)

\* C22: a backend none of whose probes is in flight, and whose probe of the
\* newest round has returned, has the flag that this newest probe stored.
C22_NewestResultWins ==
    \A b \in BackendIdx :
        (/\ \A p \in probes : p.i # b
         /\ lastOutcome[b].got # NoOutcome) =>
            Health[b] = probeFlag(lastOutcome[b].got)

\* The indices k and above whose backend is Up, in ascending order.
RECURSIVE UpFrom(_)
UpFrom(k) ==
    IF k >= NumBackends THEN <<>>
    ELSE (IF Up[k] THEN <<k>> ELSE <<>>) \o UpFrom(k + 1)

HealthyIsUp == mu.writer # "held" => HealthyBackends = UpFrom(0)

\* C23: whenever healthCheck does not hold mu, HealthyBackends lists exactly
\* the backends that are Up, in ascending order; and a backend that an
\* iteration skips for its recent failure is not Up.
C23_HealthyIsUp ==
    /\ HealthyIsUp
    /\ [][HealthyIsUp']_vars
    /\ [][\A j \in BackendIdx :
            (hcL.pc = "cycle" /\ hcL.i = j /\ hcL'.i = j + 1
                /\ cycleL'[j].result = "skipped") =>
               ~Up[j] /\ ~Up'[j] /\ j \notin Range(HealthyBackends')]_vars

\* C23's case: a cycle is over in which one backend was skipped for its
\* recent failure and another one answered 200.
C23_Witness ==
    /\ hcL.pc = "sleep"
    /\ mu.writer # "held"
    /\ \E j \in BackendIdx : cycleL[j].result = "skipped" /\ ~Up[j]
    /\ \E j \in BackendIdx : cycleL[j].result = "200" /\ Up[j]
    /\ HealthyBackends # <<>>

\* Every backend on HealthyBackends has a recorded address, and the request
\* a handler forwards goes to a recorded address.
SelectableHasAddr ==
    /\ \A j \in Range(HealthyBackends) : IPAddr[j] # NoIP
    /\ handlerL.pc = "forward" =>
          /\ handlerL.IPAddr # NoIP
          /\ handlerL.outReq.host = handlerL.IPAddr

====
